---- MODULE Spec2Model ----
(***************************************************************************)
(* Video generation pipeline of faceless-youtube-factory                   *)
(* (backend/app/graph): the LangGraph state machine script_writer ->       *)
(* casting_director -> image_generator -> audio_generator ->               *)
(* video_composer -> youtube_uploader, its routing predicates and the      *)
(* GraphState record threaded through the nodes.                           *)
(*                                                                         *)
(* One step of the model is one node invocation followed by the routing    *)
(* predicate the graph attaches to that node.  Collaborators (LLM, TTS,    *)
(* image model, muxer, YouTube, database session) are environment choices  *)
(* made inside the step.  Python indices are 0-based and are kept 0-based  *)
(* in the index maps; TLA+ sequences are 1-based, so scene index i is      *)
(* element i + 1 of the scene list.  progress is kept in hundredths.       *)
(***************************************************************************)
EXTENDS Integers, Sequences, FiniteSets, TLC

VARIABLES
    state,      \* the GraphState record (graph/state.py)
    pc,         \* node the graph runs next, "end" (END) or "aborted" (an exception left a node)
    entry,      \* how the run was started, see Init
    invoked,    \* history: names of the nodes invoked so far, in order
    db,         \* persistence: the project row and the user's YouTube connection
    meta_data,  \* history: caption metadata the composer handed to create_video
    clips,      \* history: clips built by VideoService._compose_video_sync
    yt_calls,   \* history: calls the publisher made on the connection and on youtube_service
    pipe,           \* ImageService.pipe: "None" or the loaded diffusion pipeline
    _model_loaded,  \* ImageService._model_loaded
    image_executor, \* jobs queued on the single-worker executor (image_service.py:17)
    worker,         \* the executor's worker thread: the job it runs and how far it is
    batch,          \* per pipeline instance: its position in ImageService.generate_batch
    cancel,         \* history: the cancel_project request made during the run, if any
    deletion,       \* history: the delete_project request made during the run, if any
    script_json     \* script_writer_node's local script_json: the generated document

imgvars == <<pipe, _model_loaded, image_executor, worker, batch>>

runvars == <<state, pc, entry, invoked, db, meta_data, clips, yt_calls, cancel,
             deletion, script_json>>

vars == <<state, pc, entry, invoked, db, meta_data, clips, yt_calls,
          pipe, _model_loaded, image_executor, worker, batch, cancel,
          deletion, script_json>>

----------------------------------------------------------------------------
(* Bounds of the model *)

MaxScenes == 3

Speakers == {"A", "B"}

----------------------------------------------------------------------------
(* Program constants *)

\* script_writer.py:16
MAX_RETRIES == 3

\* progress checkpoints, in hundredths
ScriptProgress == 20
CastingProgress == 30
ImageProgress == 25
AudioProgressBase == 30
AudioProgressSpan == 30
AudioProgress == 60
VideoProgress == 90
UploadProgress == 100

\* casting_director.py:17-223, the catalog cut to its first five voice ids
\* (the fallback list only refers to the first four of them)
AVAILABLE_VOICES ==
    <<"en-US-AriaNeural", "en-US-GuyNeural", "en-US-JennyNeural",
      "en-US-DavisNeural", "en-US-AmberNeural">>

\* casting_director.py:227-232 (pitch and rate are "+0Hz" and "+0%" throughout)
FALLBACK_VOICES ==
    <<"en-US-GuyNeural", "en-US-AriaNeural", "en-US-DavisNeural", "en-US-JennyNeural">>

\* audio_generator.py:46-50, the descriptor used for a speaker missing from the cast
DefaultVoice == "en-US-AriaNeural"

----------------------------------------------------------------------------
(* Values *)

\* Optional[Dict] script_json: None, or a document with a scene list
NoScript == [isNone |-> TRUE, scenes |-> <<>>]

ScriptDoc(scenes) == [isNone |-> FALSE, scenes |-> scenes]

\* Optional[Dict] cast_list: None, or speaker -> voice id
NoCast == [isNone |-> TRUE, map |-> <<>>]

CastOf(m) == [isNone |-> FALSE, map |-> m]

\* scene k of a script: its speaker, and a line text that identifies the scene
\* (speaker names are interchangeable: the first scene is spoken by "A")
SceneSeqs ==
    UNION { { [k \in 1..n |-> [speaker |-> sp[k], line |-> k]] :
                sp \in { f \in [1..n -> Speakers] : f[1] = "A" } }
            : n \in 1..MaxScenes }

Err(stage, kind, scene) == [stage |-> stage, kind |-> kind, scene |-> scene]

\* no cancel_project request was made
NoCancel == [response |-> "", at |-> 0, status |-> ""]

\* no delete_project request was made
NoDeletion == [response |-> "", at |-> 0, pc |-> ""]

\* script_writer_node has not called the generator yet
NoDocument ==
    [ stage |-> "none",
      generated |-> [has_scenes |-> FALSE, scenes |-> <<>>],
      doc |-> [has_scenes |-> FALSE, scenes |-> <<>>] ]

Range(s) == { s[k] : k \in 1..Len(s) }

Last(s) == s[Len(s)]

\* scenes[idx] for a 0-based Python index
SceneAt(scenes, idx) == scenes[idx + 1]

----------------------------------------------------------------------------
(* run_pipeline: the initial GraphState *)

initial_state(auto_upload, youtube_metadata, image_mode, scenes_per_image, background_image_url) ==
    [ auto_upload |-> auto_upload,
      image_mode |-> image_mode,
      scenes_per_image |-> scenes_per_image,
      background_image_url |-> background_image_url,
      script_json |-> NoScript,
      cast_list |-> NoCast,
      image_files |-> <<>>,
      image_scene_indices |-> <<>>,
      image_prompts |-> <<>>,
      audio_files |-> <<>>,
      has_audio_scene_indices |-> TRUE,
      audio_scene_indices |-> <<>>,
      video_path |-> "",
      youtube_metadata |-> youtube_metadata,
      youtube_video_id |-> "",
      errors |-> <<>>,
      retry_count |-> 0,
      current_step |-> "initializing",
      progress |-> 0 ]

\* run_pipeline_background (projects.py:81-115) and with it create_project and
\* run_scheduled_job (scheduler_service.py:117-126) always pass
\* youtube_metadata=None
BackgroundMetadata == ""

ImageModes == {"per_scene", "single", "upload", "none"}

RatioValues == {1, 2}

\* arguments of run_pipeline; the ratio is varied in per_scene mode and the
\* background reference in upload mode, the only modes that read them
Inputs ==
    { initial_state(au, md, im, r, bg) :
        au \in BOOLEAN, md \in {"", "meta"}, im \in ImageModes,
        r \in RatioValues, bg \in {"", "bg.png"} }

RunInputs ==
    { s \in Inputs :
        /\ s.image_mode # "per_scene" => s.scenes_per_image = 2
        /\ s.image_mode # "upload" => s.background_image_url = "" }

ProjectRow(exists, status) ==
    [ project_exists |-> exists, status |-> status, error_message |-> "",
      conn_exists |-> TRUE, conn_active |-> TRUE,
      youtube_video_id |-> "" ]

----------------------------------------------------------------------------
(* Script stage: nodes/script_writer.py *)

\* What groq_service.generate_script hands back: it raises, or returns a
\* document without a scene list, with a scene lacking speaker or line, or a
\* well-formed one.
GenOutcomes == {"generate_raised", "missing_scenes", "missing_fields", "valid"}

\* script_writer.py:59 reads the name Projec, which nothing defines: the
\* lookup raises NameError inside the try block on every call that passed
\* validation, before the script is stored in the state.
ScriptSaveRaises == TRUE

\* the exception the try block of script_writer_node ends with, "" for none
ScriptFailure(gen, db_ok) ==
    CASE gen = "generate_raised" -> "generate_raised"
      [] gen = "missing_scenes" -> "missing_scenes"
      [] gen = "missing_fields" -> "missing_fields"
      [] OTHER -> IF ScriptSaveRaises THEN "NameError"
                  ELSE IF db_ok THEN "" ELSE "db_error"

\* variant: the counter advanced by two
RetryAfterFailure_twice(n) == n + 2

\* the retry counter after a failed invocation (script_writer.py:88)
RetryAfterFailure(n) == n + 1

\* variant: the error log is replaced by the new entry
script_writer_node_overwrite(s, gen, scenes, db_ok) ==
    LET s1 == [s EXCEPT !.current_step = "generating_script"]
        fail == ScriptFailure(gen, db_ok)
    IN  IF fail = ""
        THEN [s1 EXCEPT !.script_json = ScriptDoc(scenes), !.progress = ScriptProgress]
        ELSE [s1 EXCEPT !.errors = <<Err("script_writer", fail, -1)>>,
                        !.retry_count = RetryAfterFailure(@)]

\* GraphState after script_writer_node
script_writer_node(s, gen, scenes, db_ok) ==
    LET s1 == [s EXCEPT !.current_step = "generating_script"]
        fail == ScriptFailure(gen, db_ok)
    IN  IF fail = ""
        THEN [s1 EXCEPT !.script_json = ScriptDoc(scenes), !.progress = ScriptProgress]
        ELSE [s1 EXCEPT !.errors = Append(@, Err("script_writer", fail, -1)),
                        !.retry_count = RetryAfterFailure(@)]

\* the project row after script_writer_node; handler_ok: the status write of
\* the final-failure handler (lines 91-99) commits
script_writer_db(d, s, gen, db_ok, handler_ok) ==
    LET fail == ScriptFailure(gen, db_ok)
        s2 == script_writer_node(s, gen, <<>>, db_ok)
    IN  IF fail = ""
        THEN IF d.project_exists THEN [d EXCEPT !.status = "casting"] ELSE d
        ELSE IF s2.retry_count >= MAX_RETRIES /\ handler_ok /\ d.project_exists
             THEN [d EXCEPT !.status = "failed", !.error_message = "script_writer"]
             ELSE d

\* the exception of the final-failure handler leaves the node
script_writer_raises(s, gen, db_ok, handler_ok) ==
    /\ ScriptFailure(gen, db_ok) # ""
    /\ script_writer_node(s, gen, <<>>, db_ok).retry_count >= MAX_RETRIES
    /\ ~handler_ok

\* variant: the retry limit compared with > instead of >=
should_continue_after_script_gt(s) ==
    IF ~s.script_json.isNone /\ Len(s.script_json.scenes) > 0
    THEN "casting_director"
    ELSE IF s.retry_count > MAX_RETRIES THEN "end" ELSE "script_writer"

should_continue_after_script(s) ==
    IF ~s.script_json.isNone /\ Len(s.script_json.scenes) > 0
    THEN "casting_director"
    ELSE IF s.retry_count >= MAX_RETRIES THEN "end" ELSE "script_writer"

ScriptWriter ==
    /\ pc = "script_writer"
    /\ \E gen \in GenOutcomes, scenes \in SceneSeqs, db_ok \in BOOLEAN, handler_ok \in BOOLEAN :
         /\ state' = script_writer_node(state, gen, scenes, db_ok)
         /\ db' = script_writer_db(db, state, gen, db_ok, handler_ok)
         /\ pc' = IF script_writer_raises(state, gen, db_ok, handler_ok)
                  THEN "aborted"
                  ELSE should_continue_after_script(state')
    /\ invoked' = Append(invoked, "script_writer")
    /\ UNCHANGED <<entry, meta_data, clips, yt_calls, imgvars, cancel, deletion, script_json>>

\* Documents of the script generator.  A document has a "scenes" key or not;
\* a scene is the set of its keys and the value of "duration" in tenths of a
\* second (-1 when the key is absent).  Speaker and line texts play no part
\* in the validation.
MaxDocScenes == 2

SceneKeys == {"speaker", "line", "duration"}

\* 0.2 s, 3.0 s and 90.0 s
GeneratedDurations == {2, 30, 900}

\* script_writer.py:51
DefaultDuration == 30

\* SceneContent.duration: Field(default=3.0, ge=0.5, le=60.0) (models/script.py:25)
DurationMin == 5

DurationMax == 600

GeneratedScenes ==
    { [keys |-> K, duration |-> d] : K \in SUBSET SceneKeys, d \in GeneratedDurations }
    \cup { [keys |-> K, duration |-> -1] : K \in SUBSET SceneKeys }

GeneratedDocs ==
    { [has_scenes |-> FALSE, scenes |-> <<>>] }
    \cup { [has_scenes |-> TRUE, scenes |-> sc] :
             sc \in UNION { { f \in [1..n -> GeneratedScenes] :
                                \A k \in 1..n : ("duration" \in f[k].keys) = (f[k].duration # -1) }
                            : n \in 0..MaxDocScenes } }

\* variant: only the scene list is looked for
ValidationFailure_scenes_only(doc) ==
    IF ~doc.has_scenes \/ doc.scenes = <<>> THEN "missing_scenes" ELSE ""

\* the ValueError of the validation (lines 42-48), "" when the document passes
ValidationFailure(doc) ==
    IF ~doc.has_scenes \/ doc.scenes = <<>> THEN "missing_scenes"
    ELSE IF \E k \in 1..Len(doc.scenes) : ~({"speaker", "line"} \subseteq doc.scenes[k].keys)
    THEN "missing_fields"
    ELSE ""

\* the document after the loop of lines 46-51: a scene without duration got 3.0
WithDefaults(doc) ==
    [doc EXCEPT !.scenes =
        [k \in 1..Len(doc.scenes) |->
            IF "duration" \in doc.scenes[k].keys THEN doc.scenes[k]
            ELSE [keys |-> doc.scenes[k].keys \cup {"duration"}, duration |-> DefaultDuration]]]

\* the scene list line 74 stores for a document that passed
StoredScenes(doc) ==
    [k \in 1..Len(doc.scenes) |->
        [speaker |-> "A", line |-> k, duration |-> doc.scenes[k].duration]]

\* script_writer_node with the generated document spelled out: the local
\* script_json after the try block was left (lines 39-51).  The generator
\* raises or answers the prompt with the document script_json.generated.
ScriptWriterOnDocument ==
    /\ pc = "script_writer"
    /\ \E raised \in BOOLEAN, db_ok \in BOOLEAN, handler_ok \in BOOLEAN :
         LET doc == script_json.generated
             fail == ValidationFailure(doc)
             gen == IF raised THEN "generate_raised" ELSE IF fail = "" THEN "valid" ELSE fail
         IN  /\ state' = script_writer_node(state, gen, StoredScenes(WithDefaults(doc)), db_ok)
             /\ db' = script_writer_db(db, state, gen, db_ok, handler_ok)
             /\ pc' = IF script_writer_raises(state, gen, db_ok, handler_ok)
                      THEN "aborted"
                      ELSE should_continue_after_script(state')
             /\ script_json' =
                   IF raised THEN [stage |-> "raised", generated |-> doc, doc |-> doc]
                   ELSE IF fail # "" THEN [stage |-> "rejected", generated |-> doc, doc |-> doc]
                   ELSE [stage |-> "validated", generated |-> doc, doc |-> WithDefaults(doc)]
    /\ invoked' = Append(invoked, "script_writer")
    /\ UNCHANGED <<entry, meta_data, clips, yt_calls, imgvars, cancel, deletion>>

----------------------------------------------------------------------------
(* Casting stage: nodes/casting_director.py *)

EmptyMap == [c \in {} |-> ""]

MapPut(m, key, val) == [c \in (DOMAIN m) \cup {key} |-> IF c = key THEN val ELSE m[c]]

IndexOf(seq, x) == CHOOSE k \in 1..Len(seq) : seq[k] = x /\ \A j \in 1..(k - 1) : seq[j] # x

\* keys of speaker_data: the speakers in order of first appearance (lines 251-256)
RECURSIVE SpeakerOrder(_, _, _)
SpeakerOrder(scenes, k, acc) ==
    IF k > Len(scenes) THEN acc
    ELSE SpeakerOrder(scenes, k + 1,
                      IF scenes[k].speaker \in Range(acc) THEN acc
                      ELSE Append(acc, scenes[k].speaker))

SpeakersOf(scenes) == { scenes[k].speaker : k \in 1..Len(scenes) }

Perms(S) == { f \in [1..Cardinality(S) -> S] : Range(f) = S }

\* _fallback_casting: FALLBACK_VOICES cycled by position (lines 401-407)
_fallback_casting(speakers) ==
    [c \in Range(speakers) |->
        FALLBACK_VOICES[((IndexOf(speakers, c) - 1) % Len(FALLBACK_VOICES)) + 1]]

\* variant: a colliding voice id is kept
FirstUnused_same(voice_id, used) == voice_id

\* first catalog voice not yet used, or the given id when all are used (lines 380-384)
FirstUnused(voice_id, used) ==
    IF \E k \in 1..Len(AVAILABLE_VOICES) : AVAILABLE_VOICES[k] \notin used
    THEN AVAILABLE_VOICES[CHOOSE k \in 1..Len(AVAILABLE_VOICES) :
                             /\ AVAILABLE_VOICES[k] \notin used
                             /\ \A j \in 1..(k - 1) : AVAILABLE_VOICES[j] \in used]
    ELSE voice_id

\* the loop over casting_data.items() (lines 367-394)
RECURSIVE LlmAssign(_, _, _, _)
LlmAssign(casting_data, k, assignments, used) ==
    IF k > Len(casting_data) THEN assignments
    ELSE LET e == casting_data[k]
             v1 == IF e.voice_id \in Range(AVAILABLE_VOICES) THEN e.voice_id
                   ELSE FALLBACK_VOICES[(Cardinality(DOMAIN assignments) % Len(FALLBACK_VOICES)) + 1]
             v2 == IF v1 \in used THEN FirstUnused(v1, used) ELSE v1
         IN  LlmAssign(casting_data, k + 1, MapPut(assignments, e.character, v2), used \cup {v2})

\* _llm_select_voices: {} when the collaborator raised or answered something
\* that is not a JSON object of objects, else the validated assignments.
\* The keys are those of the response, not those of speaker_data.
_llm_select_voices(response) ==
    IF response.malformed THEN EmptyMap
    ELSE LlmAssign(response.casting_data, 1, EmptyMap, {})

\* Responses of the voice-selection collaborator
MaxCastEntries == 2

Characters == Speakers \cup {"Extra"}

ResponseVoices == {"en-US-GuyNeural", "no-such-voice", ""}

CastingData ==
    UNION { { d \in [1..n -> [character : Characters, voice_id : ResponseVoices]] :
                \A i, j \in 1..n : i # j => d[i].character # d[j].character }
            : n \in 0..MaxCastEntries }

Responses ==
    { [malformed |-> TRUE, casting_data |-> <<>>] }
    \cup { [malformed |-> FALSE, casting_data |-> d] : d \in CastingData }

\* cast assignments of the main path (lines 259-263)
MainPathCast(scenes, response) ==
    LET a == _llm_select_voices(response)
    IN  IF DOMAIN a = {} THEN _fallback_casting(SpeakerOrder(scenes, 1, <<>>)) ELSE a

\* variant: the exception handler assigns no cast
casting_director_node_nofallback(s, response, db_ok, set_order) ==
    LET s1 == [s EXCEPT !.current_step = "casting"]
    IN  IF db_ok
        THEN [s1 EXCEPT !.cast_list = CastOf(MainPathCast(s.script_json.scenes, response)),
                        !.progress = CastingProgress]
        ELSE [s1 EXCEPT !.errors = Append(@, Err("casting_director", "db_error", -1))]

\* GraphState after casting_director_node; set_order is the iteration order of
\* the speaker set built in the exception handler (lines 298-300)
casting_director_node(s, response, db_ok, set_order) ==
    LET s1 == [s EXCEPT !.current_step = "casting"]
        scenes == s.script_json.scenes
    IN  IF db_ok
        THEN [s1 EXCEPT !.cast_list = CastOf(MainPathCast(scenes, response)),
                        !.progress = CastingProgress]
        ELSE [s1 EXCEPT !.errors = Append(@, Err("casting_director", "db_error", -1)),
                        !.cast_list = CastOf(_fallback_casting(set_order))]

casting_director_db(d, db_ok) ==
    IF db_ok /\ d.project_exists THEN [d EXCEPT !.status = "generating_audio"] ELSE d

\* variant: the edge the comment at pipeline.py:73 describes, skipping the image stage
AfterCasting_audio == "audio_generator"

\* pipeline.py:74
AfterCasting == "image_generator"

CastingDirector ==
    /\ pc = "casting_director"
    /\ \E response \in Responses, db_ok \in BOOLEAN,
          set_order \in Perms(SpeakersOf(state.script_json.scenes)) :
         /\ state' = casting_director_node(state, response, db_ok, set_order)
         /\ db' = casting_director_db(db, db_ok)
    /\ pc' = AfterCasting
    /\ invoked' = Append(invoked, "casting_director")
    /\ UNCHANGED <<entry, meta_data, clips, yt_calls, imgvars, cancel, deletion, script_json>>

----------------------------------------------------------------------------
(* Image stage: nodes/image_generator.py, services/image_service.py *)

\* variant: the enumeration also has the two members the stages refer to
ProjectStatusMembers_complete ==
    {"DRAFT", "GENERATING_SCRIPT", "CASTING", "GENERATING_IMAGES", "GENERATING_AUDIO",
     "GENERATING_VIDEO", "GENERATING_VIDEOS", "COMPLETED", "UPLOADING_YOUTUBE", "PUBLISHED",
     "FAILED"}

\* members of ProjectStatus (models/enums.py:10-18); GENERATING_IMAGES and
\* GENERATING_VIDEO are not among them (the enum has GENERATING_VIDEOS), so
\* reading either attribute raises AttributeError
ProjectStatusMembers ==
    {"DRAFT", "GENERATING_SCRIPT", "CASTING", "GENERATING_AUDIO", "GENERATING_VIDEOS",
     "COMPLETED", "UPLOADING_YOUTUBE", "PUBLISHED", "FAILED"}

ImgFile(i) == ToString(i) \o ".png"

\* number of scene groups: len(range(0, num_scenes, scenes_per_image))
GroupCount(num_scenes, scenes_per_image) ==
    (num_scenes + scenes_per_image - 1) \div scenes_per_image

\* image_service.generate_batch: one path or None per prompt (lines 181-197);
\* ok[i] says whether image i was generated
generate_batch(count, ok) == [k \in 1..count |-> IF ok[k - 1] THEN ImgFile(k - 1) ELSE "None"]

\* [p for p in image_files if p is not None]
ValidImages(paths) == SelectSeq(paths, LAMBDA p : p # "None")

\* variant: the group index is recorded without the bounds test
ImageForScene_unchecked(scene_idx, scenes_per_image, valid_count) ==
    scene_idx \div scenes_per_image

\* image index recorded for a scene in per_scene mode (lines 144-149)
ImageForScene(scene_idx, scenes_per_image, valid_count) ==
    LET image_idx == scene_idx \div scenes_per_image
    IN  IF image_idx < valid_count THEN image_idx ELSE -1

Repeat(x, n) == [k \in 1..n |-> x]

EmptyImages(s) ==
    [s EXCEPT !.image_files = <<>>, !.image_scene_indices = <<>>, !.image_prompts = <<>>]

\* the branch on image_mode (lines 63-160)
ImageOutputs(s, ok) ==
    LET num_scenes == Len(s.script_json.scenes)
    IN  CASE s.image_mode = "none" -> EmptyImages(s)
          [] s.image_mode = "upload" ->
                IF s.background_image_url # ""
                THEN [s EXCEPT !.image_files = <<s.background_image_url>>,
                               !.image_scene_indices = Repeat(0, num_scenes),
                               !.image_prompts = <<"User-uploaded background">>]
                ELSE EmptyImages(s)
          [] s.image_mode = "single" ->
                LET valid_images == ValidImages(generate_batch(1, ok))
                IN  IF valid_images # <<>>
                    THEN [s EXCEPT !.image_files = valid_images,
                                   !.image_scene_indices = Repeat(0, num_scenes),
                                   !.image_prompts = <<"prompt">>]
                    ELSE EmptyImages(s)
          [] OTHER ->
                LET groups == GroupCount(num_scenes, s.scenes_per_image)
                    valid_images == ValidImages(generate_batch(groups, ok))
                IN  [s EXCEPT !.image_files = valid_images,
                              !.image_scene_indices =
                                  [k \in 1..num_scenes |->
                                      ImageForScene(k - 1, s.scenes_per_image, Len(valid_images))],
                              !.image_prompts = Repeat("prompt", groups)]

\* the exception the try block of image_generator_node ends with, "" for none:
\* the first status update (lines 42-50), the generation, the second status
\* update (lines 165-173)
ImageFailure(s, d, db1_ok, batch_ok, db2_ok) ==
    IF ~db1_ok THEN "db_error"
    ELSE IF d.project_exists /\ "GENERATING_IMAGES" \notin ProjectStatusMembers THEN "AttributeError"
    ELSE IF s.image_mode \in {"single", "per_scene"} /\ ~batch_ok THEN "generation_raised"
    ELSE IF ~db2_ok THEN "db_error"
    ELSE ""

\* GraphState after image_generator_node
image_generator_node(s, d, db1_ok, batch_ok, ok, db2_ok) ==
    LET s1 == [s EXCEPT !.current_step = "generating_images"]
        fail == ImageFailure(s, d, db1_ok, batch_ok, db2_ok)
        \* line 162 was executed before the exception (the second status update raised)
        after_progress == ImageFailure(s, d, db1_ok, batch_ok, TRUE) = ""
        s2 == IF after_progress THEN [s1 EXCEPT !.progress = ImageProgress] ELSE s1
    IN  IF fail = ""
        THEN [ImageOutputs(s1, ok) EXCEPT !.progress = ImageProgress]
        ELSE EmptyImages([s2 EXCEPT !.errors = Append(@, Err("image_generator", fail, -1))])

image_generator_db(s, d, db1_ok, batch_ok, db2_ok) ==
    IF ImageFailure(s, d, db1_ok, batch_ok, db2_ok) = "" /\ d.project_exists
    THEN [d EXCEPT !.status = "generating_audio"]
    ELSE d

\* variant: the run stops after the image stage
should_continue_after_images_end(s) == "end"

should_continue_after_images(s) == "audio_generator"

ImageGenerator ==
    /\ pc = "image_generator"
    /\ \E db1_ok \in BOOLEAN, batch_ok \in BOOLEAN, db2_ok \in BOOLEAN,
          ok \in [0..(MaxScenes - 1) -> BOOLEAN] :
         /\ state' = image_generator_node(state, db, db1_ok, batch_ok, ok, db2_ok)
         /\ db' = image_generator_db(state, db, db1_ok, batch_ok, db2_ok)
    /\ pc' = should_continue_after_images(state')
    /\ invoked' = Append(invoked, "image_generator")
    /\ UNCHANGED <<entry, meta_data, clips, yt_calls, imgvars, cancel, deletion, script_json>>

----------------------------------------------------------------------------
(* Audio stage: nodes/audio_generator.py *)

\* tts_service.generate_scene_audio names the file after the scene index
\* (tts_service.py:130)
AudioFile(i) == ToString(i) \o ".mp3"

\* progress written after scene i was processed (line 89)
SceneProgress(i, scene_count) ==
    AudioProgressBase + (AudioProgressSpan * (i + 1)) \div scene_count

\* the loop over the scenes (lines 41-89): acc holds audio_files, the error
\* log and the progress; tts_ok[i] says whether synthesis of scene i succeeded
RECURSIVE AudioLoop(_, _, _, _)
AudioLoop(scenes, i, tts_ok, acc) ==
    IF i >= Len(scenes) THEN acc
    ELSE AudioLoop(scenes, i + 1, tts_ok,
            [ audio_files |-> IF tts_ok[i] THEN Append(acc.audio_files, AudioFile(i))
                              ELSE acc.audio_files,
              errors |-> IF tts_ok[i] THEN acc.errors
                         ELSE Append(acc.errors, Err("audio_generator", "tts_raised", i)),
              progress |-> SceneProgress(i, Len(scenes)) ])

\* the status update after the loop (lines 92-97) raises: the attribute
\* GENERATING_VIDEO does not exist, or the commit fails
audio_generator_raises(d, db_ok) ==
    \/ d.project_exists /\ "GENERATING_VIDEO" \notin ProjectStatusMembers
    \/ ~db_ok

\* what line 99-100 store: the audio file list and the progress checkpoint.
\* Nothing in the node writes audio_scene_indices.
AudioResult(s, audio_files) ==
    [s EXCEPT !.audio_files = audio_files, !.progress = AudioProgress]

\* GraphState after audio_generator_node (or at the point the exception left it)
audio_generator_node(s, d, tts_ok, db_ok) ==
    LET s1 == [s EXCEPT !.current_step = "generating_audio"]
        loop == AudioLoop(s.script_json.scenes, 0, tts_ok,
                          [audio_files |-> <<>>, errors |-> s.errors, progress |-> s.progress])
        s2 == [s1 EXCEPT !.errors = loop.errors, !.progress = loop.progress]
    IN  IF audio_generator_raises(d, db_ok) THEN s2
        ELSE AudioResult(s2, loop.audio_files)

audio_generator_db(d, db_ok) ==
    IF ~audio_generator_raises(d, db_ok) /\ d.project_exists
    THEN [d EXCEPT !.status = "generating_video"]
    ELSE d

\* variant: the composer is picked whatever the audio stage produced
should_continue_after_audio_always(s) == "video_composer"

should_continue_after_audio(s) ==
    IF Len(s.audio_files) > 0 THEN "video_composer" ELSE "end"

AudioGenerator ==
    /\ pc = "audio_generator"
    /\ \E tts_ok \in [0..(MaxScenes - 1) -> BOOLEAN], db_ok \in BOOLEAN :
         /\ state' = audio_generator_node(state, db, tts_ok, db_ok)
         /\ db' = audio_generator_db(db, db_ok)
         /\ pc' = IF audio_generator_raises(db, db_ok) THEN "aborted"
                  ELSE should_continue_after_audio(state')
    /\ invoked' = Append(invoked, "audio_generator")
    /\ UNCHANGED <<entry, meta_data, clips, yt_calls, imgvars, cancel, deletion, script_json>>

----------------------------------------------------------------------------
(* Composer stage: nodes/video_composer.py, services/video_service.py *)

\* state.get("audio_scene_indices", list(range(len(audio_files)))) (line 39)
AudioSceneIndices(s) ==
    IF s.has_audio_scene_indices THEN s.audio_scene_indices
    ELSE [k \in 1..Len(s.audio_files) |-> k - 1]

Min(a, b) == IF a < b THEN a ELSE b

\* caption entry built for scene index idx (lines 52-63)
MetaFor(scenes, idx) ==
    IF idx < Len(scenes)
    THEN [speaker |-> SceneAt(scenes, idx).speaker, line |-> SceneAt(scenes, idx).line]
    ELSE [speaker |-> "Unknown", line |-> 0]

\* for idx, audio_path in zip(audio_scene_indices, audio_files) (lines 50-63)
BuildMetaData(s) ==
    LET indices == AudioSceneIndices(s)
    IN  [k \in 1..Min(Len(indices), Len(s.audio_files)) |-> MetaFor(s.script_json.scenes, indices[k])]

\* image of the clip at position i of the audio list (video_service.py:116-121),
\* "" for the solid colour background
ClipImage(i, image_paths, image_scene_indices) ==
    IF image_paths # <<>> /\ image_scene_indices # <<>> /\ i < Len(image_scene_indices)
    THEN LET img_idx == image_scene_indices[i + 1]
         IN  IF img_idx >= 0 /\ img_idx < Len(image_paths) THEN image_paths[img_idx + 1] ELSE ""
    ELSE ""

\* VideoService._compose_video_sync: one clip per pair of zip(audio_paths, meta_data)
\* (video_service.py:108-156); image_paths and image_scene_indices are <<>> when
\* the caller passes none
_compose_video_sync(audio_paths, meta, image_paths, image_scene_indices) ==
    [k \in 1..Min(Len(audio_paths), Len(meta)) |->
        [ audio |-> audio_paths[k], speaker |-> meta[k].speaker, line |-> meta[k].line,
          image |-> ClipImage(k - 1, image_paths, image_scene_indices) ]]

\* the clips of the call video_service.create_video(project_id, audio_files,
\* meta_data) of the node (lines 69-73): no image argument is passed
ComposerClips(s) == _compose_video_sync(s.audio_files, BuildMetaData(s), <<>>, <<>>)

\* the exception the try block of video_composer_node ends with, "" for none
ComposerFailure(s, mux_ok, db_ok) ==
    IF s.audio_files = <<>> THEN "no_audio"
    ELSE IF ComposerClips(s) = <<>> THEN "no_clips"
    ELSE IF ~mux_ok THEN "mux_raised"
    ELSE IF ~db_ok THEN "db_error"
    ELSE ""

\* variant: the exception handler logs nothing
video_composer_node_silent(s, mux_ok, db_ok) ==
    LET s1 == [s EXCEPT !.current_step = "generating_video"]
    IN  IF ComposerFailure(s, mux_ok, db_ok) = ""
        THEN [s1 EXCEPT !.video_path = "video/final.mp4", !.progress = VideoProgress]
        ELSE s1

\* GraphState after video_composer_node
video_composer_node(s, mux_ok, db_ok) ==
    LET s1 == [s EXCEPT !.current_step = "generating_video"]
        fail == ComposerFailure(s, mux_ok, db_ok)
    IN  IF fail = ""
        THEN [s1 EXCEPT !.video_path = "video/final.mp4", !.progress = VideoProgress]
        ELSE [s1 EXCEPT !.errors = Append(@, Err("video_composer", fail, -1))]

\* variant: the exception handler leaves the project row alone
video_composer_db_unmarked(d, s, mux_ok, db_ok, handler_ok) ==
    IF ~d.project_exists THEN d
    ELSE IF ComposerFailure(s, mux_ok, db_ok) = "" THEN [d EXCEPT !.status = "completed"]
    ELSE d

video_composer_db(d, s, mux_ok, db_ok, handler_ok) ==
    IF ~d.project_exists THEN d
    ELSE IF ComposerFailure(s, mux_ok, db_ok) = "" THEN [d EXCEPT !.status = "completed"]
    ELSE IF handler_ok THEN [d EXCEPT !.status = "failed", !.error_message = "video_composer"]
    ELSE d

\* the status write of the exception handler (lines 119-128) raises
video_composer_raises(s, mux_ok, db_ok, handler_ok) ==
    ComposerFailure(s, mux_ok, db_ok) # "" /\ ~handler_ok

\* variant: the metadata test is left out
should_upload_to_youtube_nometa(s) ==
    IF s.video_path = "" THEN "end"
    ELSE IF ~s.auto_upload THEN "end"
    ELSE "youtube_uploader"

should_upload_to_youtube(s) ==
    IF s.video_path = "" THEN "end"
    ELSE IF ~s.auto_upload THEN "end"
    ELSE IF s.youtube_metadata = "" THEN "end"
    ELSE "youtube_uploader"

VideoComposer ==
    /\ pc = "video_composer"
    /\ \E mux_ok \in BOOLEAN, db_ok \in BOOLEAN, handler_ok \in BOOLEAN :
         /\ state' = video_composer_node(state, mux_ok, db_ok)
         /\ db' = video_composer_db(db, state, mux_ok, db_ok, handler_ok)
         /\ pc' = IF video_composer_raises(state, mux_ok, db_ok, handler_ok) THEN "aborted"
                  ELSE IF entry = "regenerate_video" THEN "end"
                  ELSE should_upload_to_youtube(state')
    /\ meta_data' = BuildMetaData(state)
    /\ clips' = IF state.audio_files = <<>> THEN <<>> ELSE ComposerClips(state)
    /\ invoked' = Append(invoked, "video_composer")
    /\ UNCHANGED <<entry, yt_calls, imgvars, cancel, deletion, script_json>>

----------------------------------------------------------------------------
(* Publisher stage: nodes/youtube_uploader.py *)

\* texts of the exceptions the try block can end with
UploadErrors == {"no_connection", "invalid_grant", "http_401", "http_403_quotaExceeded",
                 "quotaExceeded", "network", "db_error"}

\* variant: only the HTTP status is looked for
IsAuthError_401(e) == e = "http_401"

\* "401" in str(e) or "invalid_grant" in str(e).lower() (line 112)
IsAuthError(e) == e \in {"http_401", "invalid_grant"}

\* "403" in str(e) or "quotaExceeded" in str(e).lower() (line 132); the second
\* test looks for a mixed-case word in a lower-cased text and never matches
IsQuotaError(e) == e = "http_403_quotaExceeded"

RefreshOutcomes == {"ok", "invalid_grant", "network"}

UploadOutcomes == {"ok", "http_401", "http_403_quotaExceeded", "quotaExceeded", "network"}

\* the decrypted access token of the stored connection (line 53) and the
\* token youtube_service.refresh_token returns (line 60)
StoredToken == "stored-access-token"

RefreshedToken == "refreshed-access-token"

\* variant: the upload keeps the token read from the connection
UploadToken_stored(needs_refresh) == StoredToken

\* access_token handed to upload_video (lines 53, 67, 84)
UploadToken(needs_refresh) == IF needs_refresh THEN RefreshedToken ELSE StoredToken

YtCall(call, token, result) == [call |-> call, token |-> token, result |-> result]

\* the calls of one invocation, in order: connection.needs_refresh() (line 57),
\* youtube_service.refresh_token (line 60), youtube_service.upload_video
\* (lines 83-87); an exception ends the list
youtube_uploader_calls(d, needs_refresh, refresh, upload, db_ok) ==
    IF ~(d.conn_exists /\ d.conn_active) THEN <<>>
    ELSE <<YtCall("needs_refresh", StoredToken, IF needs_refresh THEN "true" ELSE "false")>>
         \o (IF needs_refresh THEN <<YtCall("refresh_token", "stored-refresh-token", refresh)>>
             ELSE <<>>)
         \o (IF (needs_refresh /\ refresh # "ok") \/ ~db_ok THEN <<>>
             ELSE <<YtCall("upload_video", UploadToken(needs_refresh), upload)>>)

\* the exception the try block of youtube_uploader_node ends with, "" for none
UploadFailure(d, needs_refresh, refresh, upload, db_ok) ==
    IF ~(d.conn_exists /\ d.conn_active) THEN "no_connection"
    ELSE IF needs_refresh /\ refresh # "ok" THEN refresh
    ELSE IF ~db_ok THEN "db_error"
    ELSE IF upload # "ok" THEN upload
    ELSE ""

\* the status UPLOADING_YOUTUBE was committed (lines 70-74) before the failure
UploadingCommitted(d, needs_refresh, refresh, db_ok) ==
    /\ d.conn_exists /\ d.conn_active
    /\ ~(needs_refresh /\ refresh # "ok")
    /\ db_ok
    /\ d.project_exists

\* GraphState after youtube_uploader_node
youtube_uploader_node(s, d, needs_refresh, refresh, upload, db_ok) ==
    LET s1 == [s EXCEPT !.current_step = "uploading_youtube"]
        fail == UploadFailure(d, needs_refresh, refresh, upload, db_ok)
    IN  IF fail = ""
        THEN [s1 EXCEPT !.youtube_video_id = "vid", !.progress = UploadProgress]
        ELSE [s1 EXCEPT !.errors = Append(@, Err("youtube_uploader", fail, -1))]

youtube_uploader_db(d, needs_refresh, refresh, upload, db_ok, handler_ok) ==
    LET fail == UploadFailure(d, needs_refresh, refresh, upload, db_ok)
        d1 == IF UploadingCommitted(d, needs_refresh, refresh, db_ok)
              THEN [d EXCEPT !.status = "uploading_youtube"] ELSE d
    IN  IF fail = ""
        THEN IF d.project_exists
             THEN [d1 EXCEPT !.status = "published", !.youtube_video_id = "vid"]
             ELSE d1
        ELSE IF ~handler_ok THEN d1
        ELSE IF IsAuthError(fail)
        THEN LET d2 == IF d1.conn_exists THEN [d1 EXCEPT !.conn_active = FALSE] ELSE d1
             IN  IF d2.project_exists
                 THEN [d2 EXCEPT !.status = "completed", !.error_message = "youtube_expired"]
                 ELSE d2
        ELSE IF IsQuotaError(fail) /\ d1.project_exists
        THEN [d1 EXCEPT !.status = "completed", !.error_message = "youtube_quota"]
        ELSE d1

\* the database write of the exception handler (lines 114-140) raises
youtube_uploader_raises(d, needs_refresh, refresh, upload, db_ok, handler_ok) ==
    LET fail == UploadFailure(d, needs_refresh, refresh, upload, db_ok)
    IN  fail # "" /\ (IsAuthError(fail) \/ IsQuotaError(fail)) /\ ~handler_ok

\* pipeline.py:97
AfterUpload == "end"

YouTubeUploader ==
    /\ pc = "youtube_uploader"
    /\ \E needs_refresh \in BOOLEAN, refresh \in RefreshOutcomes, upload \in UploadOutcomes,
          db_ok \in BOOLEAN, handler_ok \in BOOLEAN :
         /\ state' = youtube_uploader_node(state, db, needs_refresh, refresh, upload, db_ok)
         /\ db' = youtube_uploader_db(db, needs_refresh, refresh, upload, db_ok, handler_ok)
         /\ pc' = IF youtube_uploader_raises(db, needs_refresh, refresh, upload, db_ok, handler_ok)
                  THEN "aborted" ELSE AfterUpload
         /\ yt_calls' = youtube_uploader_calls(db, needs_refresh, refresh, upload, db_ok)
    /\ invoked' = Append(invoked, "youtube_uploader")
    /\ UNCHANGED <<entry, meta_data, clips, imgvars, cancel, deletion, script_json>>

----------------------------------------------------------------------------
(* The image service shared by concurrent pipeline instances:                *)
(* services/image_service.py                                                 *)

\* pipeline instances running in the same event loop
Instances == {1, 2}

\* prompts of one generate_batch call
MaxPrompts == 2

IdleWorker == [job |-> 0, phase |-> "idle"]

\* ImageService.__init__ (lines 23-28) and no batch under way
ImageServiceIdle ==
    /\ pipe = "None"
    /\ _model_loaded = FALSE
    /\ image_executor = <<>>
    /\ worker = IdleWorker
    /\ batch = [p \in Instances |-> [pc |-> "idle", i |-> 0, count |-> 0, result |-> "", paths |-> <<>>]]

\* the worker hands the outcome of its job to the awaiting instance
JobDone(b, p, result) == [b EXCEPT ![p].result = result]

\* generate_scene_image: loop.run_in_executor(image_executor, self._generate_sync, ...)
\* (lines 167-177); the coroutine then awaits the result
SubmitJob(p) ==
    /\ batch[p].pc = "loop"
    /\ image_executor' = Append(image_executor, p)
    /\ batch' = [batch EXCEPT ![p].pc = "await"]
    /\ UNCHANGED <<pipe, _model_loaded, worker, runvars>>

\* the single worker thread takes the next queued job
WorkerStart ==
    /\ worker.job = 0
    /\ image_executor # <<>>
    /\ worker' = [job |-> Head(image_executor), phase |-> "load"]
    /\ image_executor' = Tail(image_executor)
    /\ UNCHANGED <<pipe, _model_loaded, batch, runvars>>

\* _generate_sync calls _load_model (lines 40-93, 115): nothing when the flag
\* is set, else the pipeline is built, which can raise
WorkerLoadModel ==
    /\ worker.phase = "load"
    /\ IF _model_loaded
       THEN /\ worker' = [worker EXCEPT !.phase = "call"]
            /\ UNCHANGED <<pipe, _model_loaded, batch>>
       ELSE \E load_ok \in BOOLEAN :
              IF load_ok
              THEN /\ pipe' = "model"
                   /\ _model_loaded' = TRUE
                   /\ worker' = [worker EXCEPT !.phase = "call"]
                   /\ UNCHANGED batch
              ELSE /\ worker' = IdleWorker
                   /\ batch' = JobDone(batch, worker.job, "None")
                   /\ UNCHANGED <<pipe, _model_loaded>>
    /\ UNCHANGED <<image_executor, runvars>>

\* image = self.pipe(...) (lines 123-129): calling None raises TypeError
WorkerCallPipe ==
    /\ worker.phase = "call"
    /\ IF pipe = "None"
       THEN /\ worker' = IdleWorker
            /\ batch' = JobDone(batch, worker.job, "None")
       ELSE /\ worker' = [worker EXCEPT !.phase = "running"]
            /\ UNCHANGED batch
    /\ UNCHANGED <<pipe, _model_loaded, image_executor, runvars>>

\* the diffusion run ends: the image is saved and its path returned, or an
\* exception is raised (lines 131-145)
WorkerFinish ==
    /\ worker.phase = "running"
    /\ \E gen_ok \in BOOLEAN :
         batch' = JobDone(batch, worker.job, IF gen_ok THEN "path" ELSE "None")
    /\ worker' = IdleWorker
    /\ UNCHANGED <<pipe, _model_loaded, image_executor, runvars>>

\* generate_batch resumes with the outcome of its job (lines 185-192)
ResumeBatch(p) ==
    /\ batch[p].pc = "await"
    /\ batch[p].result # ""
    /\ batch' = [batch EXCEPT ![p].paths = Append(@, batch[p].result),
                              ![p].result = "",
                              ![p].i = @ + 1,
                              ![p].pc = IF batch[p].i + 1 < batch[p].count THEN "loop" ELSE "unload"]
    /\ UNCHANGED <<pipe, _model_loaded, image_executor, worker, runvars>>

\* generate_batch calls self._unload_model() itself (line 195), in the event
\* loop thread and not through the executor (lines 95-104)
UnloadModel(p) ==
    /\ batch[p].pc = "unload"
    /\ IF pipe # "None"
       THEN pipe' = "None" /\ _model_loaded' = FALSE
       ELSE UNCHANGED <<pipe, _model_loaded>>
    /\ batch' = [batch EXCEPT ![p].pc = "done"]
    /\ UNCHANGED <<image_executor, worker, runvars>>

\* two pipeline instances enter generate_batch, each with its prompts
ImageInit ==
    /\ pipe = "None"
    /\ _model_loaded = FALSE
    /\ image_executor = <<>>
    /\ worker = IdleWorker
    /\ batch \in [Instances -> { [pc |-> "loop", i |-> 0, count |-> n, result |-> "", paths |-> <<>>] :
                                   n \in 1..MaxPrompts }]
    /\ entry = "image_service"
    /\ state = initial_state(FALSE, "", "per_scene", 2, "")
    /\ pc = "image_generator"
    /\ db = ProjectRow(FALSE, "casting")
    /\ invoked = <<>>
    /\ meta_data = <<>>
    /\ clips = <<>>
    /\ yt_calls = <<>>
    /\ cancel = NoCancel
    /\ deletion = NoDeletion
    /\ script_json = NoDocument

ImageNext ==
    \/ \E p \in Instances : SubmitJob(p)
    \/ WorkerStart
    \/ WorkerLoadModel
    \/ WorkerCallPipe
    \/ WorkerFinish
    \/ \E p \in Instances : ResumeBatch(p)
    \/ \E p \in Instances : UnloadModel(p)

ImageSpec == ImageInit /\ [][ImageNext]_vars

----------------------------------------------------------------------------
(* cancel_project: api/v1/projects.py *)

\* the members cancel_project lists as cancellable (projects.py:698-706)
CancellableStateNames ==
    <<"DRAFT", "GENERATING_SCRIPT", "CASTING", "GENERATING_IMAGES", "GENERATING_AUDIO",
      "GENERATING_VIDEO", "UPLOADING_YOUTUBE">>

\* stored values of the listed members that exist
CancellableValues ==
    {"draft", "generating_script", "casting", "generating_audio", "uploading_youtube"}

\* HTTP outcome of cancel_project: 404 without a project row; building the
\* list of cancellable states reads ProjectStatus.GENERATING_IMAGES, which
\* raises AttributeError (a 500 response) before any status test or write
cancel_project_response(d) ==
    IF ~d.project_exists THEN "404"
    ELSE IF \E k \in 1..Len(CancellableStateNames) :
                CancellableStateNames[k] \notin ProjectStatusMembers
    THEN "AttributeError"
    ELSE IF d.status \notin CancellableValues THEN "400"
    ELSE "200"

\* the project row after cancel_project (lines 714-718)
cancel_project(d) ==
    IF cancel_project_response(d) = "200"
    THEN [d EXCEPT !.status = "failed", !.error_message = "Cancelled by user"]
    ELSE d

\* one cancel request, at any moment of a run
CancelProject ==
    /\ cancel = NoCancel
    /\ entry \in {"run_pipeline", "script_stored", "video_stored"}
    /\ cancel' = [response |-> cancel_project_response(db), at |-> Len(invoked), status |-> db.status]
    /\ db' = cancel_project(db)
    /\ UNCHANGED <<state, pc, entry, invoked, meta_data, clips, yt_calls, imgvars,
                   deletion, script_json>>

----------------------------------------------------------------------------
(* delete_project: api/v1/projects.py *)

\* the members delete_project lists as in progress (projects.py:754-761)
InProgressStateNames ==
    <<"GENERATING_SCRIPT", "CASTING", "GENERATING_IMAGES", "GENERATING_AUDIO",
      "GENERATING_VIDEO", "UPLOADING_YOUTUBE">>

\* stored values of the listed members
InProgressValues ==
    {"generating_script", "casting", "generating_images", "generating_audio",
     "generating_video", "uploading_youtube"}

\* variant: every existing project may be deleted
delete_project_response_unguarded(d) ==
    IF ~d.project_exists THEN "404" ELSE "200"

\* HTTP outcome of delete_project: 404 without a project row; building the
\* list of in-progress states reads ProjectStatus.GENERATING_IMAGES, which
\* raises AttributeError (a 500 response) before the status test and before
\* anything is deleted
delete_project_response(d) ==
    IF ~d.project_exists THEN "404"
    ELSE IF \E k \in 1..Len(InProgressStateNames) :
                InProgressStateNames[k] \notin ProjectStatusMembers
    THEN "AttributeError"
    ELSE IF d.status \in InProgressValues THEN "400"
    ELSE "200"

\* the project row after delete_project (lines 769-795)
delete_project(d) ==
    IF delete_project_response(d) = "200" THEN [d EXCEPT !.project_exists = FALSE] ELSE d

\* one delete request, at any moment of a run
DeleteProject ==
    /\ deletion = NoDeletion
    /\ entry \in {"run_pipeline", "script_stored", "video_stored"}
    /\ deletion' = [response |-> delete_project_response(db), at |-> Len(invoked), pc |-> pc]
    /\ db' = delete_project(db)
    /\ UNCHANGED <<state, pc, entry, invoked, meta_data, clips, yt_calls, imgvars,
                   cancel, script_json>>

----------------------------------------------------------------------------
(* regenerate_audio: api/v1/projects.py *)

\* image files and index map rebuilt from the images directory
\* (projects.py:459-461, 633-636)
RebuiltImageIndices(num_scenes, num_images, scenes_per_image) ==
    [k \in 1..num_scenes |-> Min((k - 1) \div scenes_per_image, num_images - 1)]

\* the state regenerate_task builds (lines 487-513) from the latest script
\* and cast and the image files found on disk (lines 442-464); the endpoint
\* has set the status to generating_audio (lines 477-479)
InitRegenerateAudio ==
    /\ entry = "regenerate_audio"
    /\ \E au \in BOOLEAN, scenes \in SceneSeqs, num_images \in 0..1 :
         LET scenes_per_image == IF num_images > 0 THEN Len(scenes) \div num_images ELSE 2
         IN  state = [initial_state(au, "", "per_scene", scenes_per_image, "")
                        EXCEPT !.script_json = ScriptDoc(scenes),
                               !.cast_list = CastOf(_fallback_casting(SpeakerOrder(scenes, 1, <<>>))),
                               !.image_files = [k \in 1..num_images |-> ImgFile(k - 1)],
                               !.image_scene_indices =
                                   IF num_images = 0 THEN <<>>
                                   ELSE RebuiltImageIndices(Len(scenes), num_images, scenes_per_image),
                               !.current_step = "regenerating_audio",
                               !.progress = AudioProgressBase]
    /\ pc = "regenerate_task"
    /\ \E ex \in BOOLEAN : db = ProjectRow(ex, "generating_audio")
    /\ invoked = <<>>
    /\ meta_data = <<>>
    /\ clips = <<>>
    /\ yt_calls = <<>>
    /\ cancel = NoCancel
    /\ deletion = NoDeletion
    /\ script_json = NoDocument
    /\ ImageServiceIdle

\* project_crud.update_status (crud/project.py:99-114) with a commit that
\* succeeds: nothing happens without a project row
update_status(d, status, error_message) ==
    IF ~d.project_exists THEN d
    ELSE IF error_message # "" THEN [d EXCEPT !.status = status, !.error_message = error_message]
    ELSE [d EXCEPT !.status = status]

\* regenerate_task (lines 482-555): the audio stage, then the composer when
\* there are audio files, then the status completed; any exception on the way
\* is caught and the status set to failed.  The *_ok arguments say whether
\* the commit of the corresponding status update succeeds.
RegenerateAudioTask ==
    /\ pc = "regenerate_task"
    /\ \E tts_ok \in [0..(MaxScenes - 1) -> BOOLEAN], db_ok \in BOOLEAN, video_ok \in BOOLEAN,
          mux_ok \in BOOLEAN, composer_db_ok \in BOOLEAN, handler_ok \in BOOLEAN,
          completed_ok \in BOOLEAN, failed_ok \in BOOLEAN :
         LET s1 == audio_generator_node(state, db, tts_ok, db_ok)
             d1 == audio_generator_db(db, db_ok)
             audio_raised == audio_generator_raises(db, db_ok)
             has_audio == ~audio_raised /\ s1.audio_files # <<>>
             \* line 525 reads ProjectStatus.GENERATING_VIDEO
             video_raised == has_audio /\ ("GENERATING_VIDEO" \notin ProjectStatusMembers
                                           \/ (d1.project_exists /\ ~video_ok))
             composed == has_audio /\ ~video_raised
             d2 == IF composed THEN update_status(d1, "generating_video", "") ELSE d1
             s2 == IF composed THEN video_composer_node(s1, mux_ok, composer_db_ok) ELSE s1
             d3 == IF composed
                   THEN video_composer_db(d2, s1, mux_ok, composer_db_ok, handler_ok)
                   ELSE d2
             composer_raised == composed /\ video_composer_raises(s1, mux_ok, composer_db_ok, handler_ok)
             completed_raised == ~audio_raised /\ ~video_raised /\ ~composer_raised
                                 /\ d3.project_exists /\ ~completed_ok
             raised == audio_raised \/ video_raised \/ composer_raised \/ completed_raised
             handler_raised == raised /\ d3.project_exists /\ ~failed_ok
         IN  /\ state' = s2
             /\ db' = IF ~raised THEN update_status(d3, "completed", "")
                      ELSE IF handler_raised THEN d3
                      ELSE update_status(d3, "failed", "regenerate_audio")
             /\ pc' = IF handler_raised THEN "aborted" ELSE "end"
             /\ invoked' = invoked \o <<"audio_generator">>
                                   \o (IF composed THEN <<"video_composer">> ELSE <<>>)
             /\ meta_data' = IF composed THEN BuildMetaData(s1) ELSE meta_data
             /\ clips' = IF composed THEN ComposerClips(s1) ELSE clips
    /\ UNCHANGED <<entry, yt_calls, imgvars, cancel, deletion, script_json>>

RegenSpec == InitRegenerateAudio /\ [][RegenerateAudioTask]_vars

----------------------------------------------------------------------------
(* Runs *)

\* run_pipeline (pipeline.py:106-191): the graph entered at script_writer with
\* the initial state; create_project has put the project row at generating_script
InitRunPipeline ==
    /\ entry = "run_pipeline"
    /\ state \in RunInputs
    /\ pc = "script_writer"
    /\ \E ex \in BOOLEAN : db = ProjectRow(ex, "generating_script")

\* the state script_writer_node hands to the casting_director edge when its
\* success path (script_writer.py:73-74) has stored a validated script
InitScriptStored ==
    /\ entry = "script_stored"
    /\ \E s \in RunInputs, scenes \in SceneSeqs :
         state = [s EXCEPT !.script_json = ScriptDoc(scenes),
                           !.current_step = "generating_script",
                           !.progress = ScriptProgress]
    /\ pc = "casting_director"
    /\ \E ex \in BOOLEAN : db = ProjectRow(ex, "casting")

\* audio files on record for a project: any non-empty ascending choice of scenes
AudioSelections(scenes) ==
    { sel \in SUBSET (0..(Len(scenes) - 1)) : sel # {} }

RECURSIVE SortedFiles(_, _, _)
SortedFiles(sel, i, n) ==
    IF i >= n THEN <<>>
    ELSE (IF i \in sel THEN <<AudioFile(i)>> ELSE <<>>) \o SortedFiles(sel, i + 1, n)

\* regenerate_video (projects.py:605-663): video_composer_node called on a
\* state built from the stored script, audio assets and image files; the
\* state has no audio_scene_indices key
InitRegenerateVideo ==
    /\ entry = "regenerate_video"
    /\ \E s \in Inputs, scenes \in SceneSeqs, num_images \in 0..2 :
         \E sel \in AudioSelections(scenes) :
            /\ s.youtube_metadata = "" /\ s.background_image_url = "" /\ s.image_mode = "per_scene"
            /\ state = [s EXCEPT !.script_json = ScriptDoc(scenes),
                                 !.cast_list = CastOf(EmptyMap),
                                 !.audio_files = SortedFiles(sel, 0, Len(scenes)),
                                 !.has_audio_scene_indices = FALSE,
                                 !.image_files = [k \in 1..num_images |-> ImgFile(k - 1)],
                                 !.image_scene_indices =
                                     IF num_images = 0 THEN <<>>
                                     ELSE RebuiltImageIndices(Len(scenes), num_images, s.scenes_per_image),
                                 !.current_step = "regenerating_video",
                                 !.progress = AudioProgress]
    /\ pc = "video_composer"
    /\ \E ex \in BOOLEAN : db = ProjectRow(ex, "completed")

\* the state the success path of video_composer_node (video_composer.py:104-105)
\* hands to its conditional edge (pipeline.py:90-94): a video path is stored,
\* the project row is at completed, and should_upload_to_youtube picks the
\* next node.  The history starts with the composer invocation.
InitVideoStored ==
    /\ entry = "video_stored"
    /\ \E s \in Inputs, scenes \in SceneSeqs, ca \in BOOLEAN :
         /\ s.image_mode = "none"
         /\ s.background_image_url = "" /\ s.scenes_per_image = 1
         /\ state = [s EXCEPT !.script_json = ScriptDoc(scenes),
                              !.cast_list = CastOf(_fallback_casting(SpeakerOrder(scenes, 1, <<>>))),
                              !.video_path = "video/final.mp4",
                              !.current_step = "generating_video",
                              !.progress = VideoProgress]
         /\ \E ex \in BOOLEAN :
              db = [ProjectRow(ex, "completed") EXCEPT !.conn_active = ca]
    /\ pc = should_upload_to_youtube(state)

Init ==
    /\ \/ InitRunPipeline
       \/ InitScriptStored
       \/ InitRegenerateVideo
       \/ InitVideoStored
    /\ invoked = IF entry = "video_stored" THEN <<"video_composer">> ELSE <<>>
    /\ meta_data = <<>>
    /\ clips = <<>>
    /\ yt_calls = <<>>
    /\ cancel = NoCancel
    /\ deletion = NoDeletion
    /\ script_json = NoDocument
    /\ ImageServiceIdle

\* Scripts with many speakers, for the casting stage alone: scene k is spoken
\* by the k-th name, so a script of n scenes has n speakers
MaxEnsemble == 5

EnsembleNames == <<"A", "B", "C", "D", "E", "F", "G">>

EnsembleScript(n) == [k \in 1..n |-> [speaker |-> EnsembleNames[k], line |-> k]]

\* the state script_writer_node hands to casting_director (as InitScriptStored)
\* for a script of up to MaxEnsemble speakers
InitEnsemble ==
    /\ entry = "script_stored"
    /\ \E n \in 1..MaxEnsemble :
         state = [initial_state(FALSE, "", "none", 2, "")
                    EXCEPT !.script_json = ScriptDoc(EnsembleScript(n)),
                           !.current_step = "generating_script",
                           !.progress = ScriptProgress]
    /\ pc = "casting_director"
    /\ \E ex \in BOOLEAN : db = ProjectRow(ex, "casting")
    /\ invoked = <<>>
    /\ meta_data = <<>>
    /\ clips = <<>>
    /\ yt_calls = <<>>
    /\ cancel = NoCancel
    /\ deletion = NoDeletion
    /\ script_json = NoDocument
    /\ ImageServiceIdle

\* the casting stage run on its own
CastSpec == InitEnsemble /\ [][CastingDirector]_vars

Next ==
    \/ ScriptWriter
    \/ CastingDirector
    \/ ImageGenerator
    \/ AudioGenerator
    \/ VideoComposer
    \/ YouTubeUploader

Spec == Init /\ [][Next]_vars

\* Runs of short scripts without images, with a cancel request arriving at
\* any moment
ApiInit ==
    /\ Init
    /\ state.image_mode = "none"
    /\ state.script_json.isNone \/ Len(state.script_json.scenes) = 1

ApiNext ==
    \/ ScriptWriter
    \/ CastingDirector
    \/ ImageGenerator
    \/ AudioGenerator
    \/ VideoComposer
    \/ YouTubeUploader
    \/ CancelProject
    \/ DeleteProject

ApiSpec == ApiInit /\ [][ApiNext]_vars

\* run_pipeline on one input, the script stage spelled out by document
ScriptInit ==
    /\ entry = "run_pipeline"
    /\ state = initial_state(FALSE, BackgroundMetadata, "none", 2, "")
    /\ pc = "script_writer"
    /\ \E ex \in BOOLEAN : db = ProjectRow(ex, "generating_script")
    /\ \E doc \in GeneratedDocs : script_json = [stage |-> "none", generated |-> doc, doc |-> doc]
    /\ invoked = <<>>
    /\ meta_data = <<>>
    /\ clips = <<>>
    /\ yt_calls = <<>>
    /\ cancel = NoCancel
    /\ deletion = NoDeletion
    /\ ImageServiceIdle

ScriptSpec == ScriptInit /\ [][ScriptWriterOnDocument]_vars

\* the runner keeps invoking the current node until END
FairSpec == Spec /\ WF_vars(Next)

----------------------------------------------------------------------------
(* Properties *)

Count(name) == Cardinality({ k \in 1..Len(invoked) : invoked[k] = name })

Rank(name) ==
    CASE name = "script_writer" -> 1
      [] name = "casting_director" -> 2
      [] name = "image_generator" -> 3
      [] name = "audio_generator" -> 4
      [] name = "video_composer" -> 5
      [] name = "youtube_uploader" -> 6

Invoked(name) == \E k \in 1..Len(invoked) : invoked[k] = name

\* scene index an audio file was synthesized from (the file is named after it)
SceneOfFile(f) == CHOOSE i \in 0..MaxScenes : AudioFile(i) = f

\* C1: in every run the script stage is invoked at most 3 times and the
\* retry counter never exceeds 3, whatever the script collaborator does.
C1_RetryBounded ==
    /\ Count("script_writer") <= 3
    /\ state.retry_count <= 3

C1_Witness ==
    /\ entry = "run_pipeline"
    /\ pc = "end"
    /\ Count("script_writer") = 3
    /\ state.retry_count = 3

\* C2: every run reaches the terminal marker (END) after finitely many stage
\* invocations, whatever the collaborators return or raise.
C2_ReachesEnd == <>(pc = "end")

C4_AllScriptFailures ==
    (entry = "run_pipeline" /\ state.script_json.isNone) =>
        /\ state.retry_count = Count("script_writer")
        /\ Len(state.errors) = Count("script_writer")
        /\ \A k \in 1..Len(invoked) : invoked[k] = "script_writer"
        /\ pc = "end" => (state.retry_count = 3 /\ Len(state.errors) = 3)

C4_Witness ==
    /\ entry = "run_pipeline"
    /\ pc = "end"
    /\ state.script_json.isNone
    /\ state.retry_count = 3
    /\ Len(state.errors) = 3
    /\ invoked = <<"script_writer", "script_writer", "script_writer">>

\* the audio stage has returned (no exception left it)
AudioStageDone == Invoked("audio_generator") /\ ~(pc = "aborted" /\ Last(invoked) = "audio_generator")

\* C5: after the audio stage the audio file list and the audio-to-scene index
\* map have the same length and every map value is a valid scene index.
C5_AudioMapAligned ==
    AudioStageDone =>
        /\ Len(state.audio_files) = Len(state.audio_scene_indices)
        /\ \A k \in 1..Len(state.audio_scene_indices) :
              /\ state.audio_scene_indices[k] >= 0
              /\ state.audio_scene_indices[k] < Len(state.script_json.scenes)

\* C6: after the audio stage the audio-to-scene index map is the ascending list
\* of the indices of the scenes whose synthesis succeeded, and one error was
\* logged per failed scene.
C6_MapListsSucceededScenes ==
    AudioStageDone =>
        /\ state.audio_scene_indices =
              [k \in 1..Len(state.audio_files) |-> SceneOfFile(state.audio_files[k])]
        /\ \A i, j \in 1..Len(state.audio_scene_indices) :
              i < j => state.audio_scene_indices[i] < state.audio_scene_indices[j]
        /\ Cardinality({ k \in 1..Len(state.errors) : state.errors[k].stage = "audio_generator" })
              = Len(state.script_json.scenes) - Len(state.audio_files)

\* C7: in a pipeline run the composer builds one caption entry per audio file,
\* carrying the speaker and line of the scene the file was synthesized from.
C7_CaptionsFollowMap ==
    (entry = "script_stored" /\ Invoked("video_composer")) =>
        /\ Len(meta_data) = Len(state.audio_files)
        /\ \A k \in 1..Len(meta_data) :
              meta_data[k] = MetaFor(state.script_json.scenes, SceneOfFile(state.audio_files[k]))

\* image the image-to-scene index map assigns to a scene, "" for none
ImageOfScene(s, i) ==
    IF i < Len(s.image_scene_indices)
       /\ s.image_scene_indices[i + 1] >= 0
       /\ s.image_scene_indices[i + 1] < Len(s.image_files)
    THEN s.image_files[s.image_scene_indices[i + 1] + 1]
    ELSE ""

\* C8: every clip the composer builds shows the image that the image-to-scene
\* index map assigns to the scene the clip's audio came from.
C8_ClipImageByScene ==
    \A k \in 1..Len(clips) :
        clips[k].image = ImageOfScene(state, SceneOfFile(clips[k].audio))

\* C9: after the casting stage the cast assignments have exactly the script's
\* speakers as keys and every key maps to a non-empty voice id.
C9_CastCoversSpeakers ==
    Invoked("casting_director") =>
        /\ ~state.cast_list.isNone
        /\ DOMAIN state.cast_list.map = SpeakersOf(state.script_json.scenes)
        /\ \A c \in DOMAIN state.cast_list.map : state.cast_list.map[c] # ""

CollaboratorFailureKinds ==
    {"generate_raised", "missing_scenes", "missing_fields", "db_error",
     "generation_raised", "tts_raised", "mux_raised"}

\* C11: a pipeline run in which every collaborator call succeeded passes through
\* script, casting, image, audio and composer and ends with a video path, an
\* empty error log, one audio file per scene and the index map 0..N-1.
C11_AllCollaboratorsSucceed ==
    ( /\ entry = "run_pipeline"
      /\ pc = "end"
      /\ \A k \in 1..Len(state.errors) : state.errors[k].kind \notin CollaboratorFailureKinds ) =>
        /\ ~state.script_json.isNone
        /\ Len(invoked) >= 5
        /\ SubSeq(invoked, Len(invoked) - 4, Len(invoked)) =
              <<"script_writer", "casting_director", "image_generator", "audio_generator",
                "video_composer">>
        /\ state.video_path # ""
        /\ state.errors = <<>>
        /\ Len(state.audio_files) = Len(state.script_json.scenes)
        /\ state.audio_scene_indices = [k \in 1..Len(state.script_json.scenes) |-> k - 1]

\* number of scenes whose synthesis produced an audio file
ProducedAudio ==
    Len(state.script_json.scenes)
    - Cardinality({ k \in 1..Len(state.errors) : state.errors[k].kind = "tts_raised" })

\* C12: right after the audio stage of a run whose project row exists the run
\* goes on to the composer exactly when at least one audio file was produced,
\* and to the terminal marker when none was; the composer is never invoked
\* with zero audio files produced.
C12_AudioRouting ==
    /\ (invoked # <<>> /\ Last(invoked) = "audio_generator" /\ db.project_exists) =>
          /\ (pc = "video_composer") <=> (ProducedAudio > 0)
          /\ ProducedAudio = 0 => pc = "end"
    /\ (entry = "script_stored" /\ Invoked("video_composer")) => ProducedAudio > 0

\* C13: the publisher is invoked (or is the next node) exactly when the
\* composer has run and left a video path while auto_upload is set and publish
\* metadata is present; otherwise the run is over without a publisher invocation.
C13_PublisherIff ==
    /\ Invoked("video_composer") =>
          /\ (pc = "youtube_uploader" \/ Invoked("youtube_uploader"))
                <=> (state.video_path # "" /\ state.auto_upload /\ state.youtube_metadata # "")
          /\ pc \in {"youtube_uploader", "end", "aborted"}
    /\ Invoked("youtube_uploader") => Invoked("video_composer")

C13_Witness ==
    /\ entry = "video_stored"
    /\ invoked = <<"video_composer", "youtube_uploader">>
    /\ state.video_path # "" /\ state.auto_upload /\ state.youtube_metadata # ""
    /\ pc = "end"

\* the image stage returned without logging a stage failure
ImageStageSucceeded ==
    /\ Invoked("image_generator")
    /\ \A k \in 1..Len(state.errors) : state.errors[k].stage # "image_generator"

\* C14: in per_scene mode with ratio r, scene i maps to index i \div r when the
\* image of that group was generated and to -1 when it failed, and the image a
\* scene resolves to is never the image of another group.
C14_PerSceneMapping ==
    (ImageStageSucceeded /\ state.image_mode = "per_scene") =>
        /\ Len(state.image_scene_indices) = Len(state.script_json.scenes)
        /\ \A i \in 0..(Len(state.script_json.scenes) - 1) :
              LET g == i \div state.scenes_per_image
              IN  /\ state.image_scene_indices[i + 1] =
                        (IF ImgFile(g) \in Range(state.image_files) THEN g ELSE -1)
                  /\ ImageOfScene(state, i) \in {"", ImgFile(g)}

ComposerFailed == \E k \in 1..Len(state.errors) : state.errors[k].stage = "video_composer"

C16_ZeroAudioMarksFailed ==
    ( /\ invoked # <<>>
      /\ Last(invoked) = "audio_generator"
      /\ ProducedAudio = 0
      /\ db.project_exists ) =>
        /\ pc = "end"
        /\ db.status = "failed"
        /\ db.error_message # ""

\* the publisher returned after logging a failure of one of the given kinds
PublisherFailedWith(kinds) ==
    /\ pc = "end"
    /\ \E k \in 1..Len(state.errors) :
          state.errors[k].stage = "youtube_uploader" /\ state.errors[k].kind \in kinds

\* C17: when the stored credential needs a refresh, the refresh collaborator
\* is called before any upload, an upload uses the refreshed token, and after
\* a failed refresh no upload is attempted.
C17_RefreshBeforeUpload ==
    (\E n \in 1..Len(yt_calls) : yt_calls[n].call = "needs_refresh" /\ yt_calls[n].result = "true") =>
        \E r \in 1..Len(yt_calls) :
            /\ yt_calls[r].call = "refresh_token"
            /\ \A u \in 1..Len(yt_calls) :
                  yt_calls[u].call = "upload_video" =>
                      /\ r < u
                      /\ yt_calls[r].result = "ok"
                      /\ yt_calls[u].token = RefreshedToken

C17_Witness ==
    /\ Len(yt_calls) = 3
    /\ yt_calls[1].call = "needs_refresh" /\ yt_calls[1].result = "true"
    /\ yt_calls[2].call = "refresh_token" /\ yt_calls[2].result = "ok"
    /\ yt_calls[3].call = "upload_video" /\ yt_calls[3].token = RefreshedToken
    /\ state.youtube_video_id # ""

C19_QuotaFailureReverts ==
    PublisherFailedWith({"http_403_quotaExceeded", "quotaExceeded"}) =>
        /\ db.conn_active
        /\ db.project_exists => (db.status = "completed" /\ db.error_message = "youtube_quota")

\* C20: when the publisher failed with an error that is neither an auth nor a
\* quota error and returned, the project is at completed with an error message.
C20_OtherFailureReverts ==
    (PublisherFailedWith({"no_connection", "network", "db_error"}) /\ db.project_exists) =>
        /\ db.status = "completed"
        /\ db.error_message # ""

CastingFailed == \E k \in 1..Len(state.errors) : state.errors[k].stage = "casting_director"

DistinctVoices(m) == \A a, b \in DOMAIN m : a # b => m[a] # m[b]

C23_FallbackDeterministic ==
    (invoked # <<>> /\ Last(invoked) = "casting_director" /\ CastingFailed) =>
        state.cast_list.map =
            MainPathCast(state.script_json.scenes, [malformed |-> TRUE, casting_data |-> <<>>])

ImageErrors == { k \in 1..Len(state.errors) : state.errors[k].stage = "image_generator" }

C25_UploadAndSingleShape ==
    ( /\ Invoked("image_generator")
      /\ \A k \in ImageErrors : state.errors[k].kind \notin CollaboratorFailureKinds ) =>
        /\ (state.image_mode = "upload" /\ state.background_image_url # "") =>
              /\ state.image_files = <<state.background_image_url>>
              /\ state.image_scene_indices = Repeat(0, Len(state.script_json.scenes))
        /\ (state.image_mode = "single" /\ state.image_files # <<>>) =>
              /\ Len(state.image_files) = 1
              /\ state.image_scene_indices = Repeat(0, Len(state.script_json.scenes))

\* C26: a run at the terminal marker has a video path or a non-empty error log.
C26_VideoOrError ==
    pc = "end" => (state.video_path # "" \/ state.errors # <<>>)

C26_Witness ==
    /\ pc = "end"
    /\ Last(invoked) = "audio_generator"
    /\ state.video_path = ""
    /\ state.audio_files = <<>>
    /\ \E k \in 1..Len(state.errors) : state.errors[k].kind = "tts_raised"

IsPrefix(a, b) == Len(a) <= Len(b) /\ SubSeq(b, 1, Len(a)) = a

\* C27: the error log is append-only: at every step the previous log is a
\* prefix of the current one.
C27_ErrorsAppendOnly == [][IsPrefix(state.errors, state'.errors)]_vars

C27_Witness ==
    /\ Len(state.errors) >= 3
    /\ state.errors[1].stage = "casting_director"
    /\ state.errors[2].stage = "image_generator"
    /\ state.errors[3].stage = "audio_generator"

\* C28: the shared diffusion model is only touched under the single-worker
\* executor: while the worker runs a generation the model stays loaded (no
\* instance unloads it under a running generation), and at most one
\* generation runs at a time.
C28_ModelAccessSerialized ==
    worker.phase = "running" => (pipe = "model" /\ _model_loaded)

C31_SaveFailureNotSurfaced ==
    \A k \in 1..Len(state.errors) : state.errors[k].kind # "db_error"

\* C32: a stage is invoked only with its upstream fields populated: a script
\* with at least one scene before casting, image, audio and composer, cast
\* assignments before audio, and a non-empty audio file list before the
\* composer when the pipeline invokes it.
C32_UpstreamPopulated ==
    /\ pc \in {"casting_director", "image_generator", "audio_generator", "video_composer"} =>
          /\ ~state.script_json.isNone
          /\ Len(state.script_json.scenes) >= 1
    /\ pc = "audio_generator" => ~state.cast_list.isNone
    /\ (pc = "video_composer" /\ entry # "regenerate_video") => state.audio_files # <<>>

C32_Witness ==
    /\ pc = "video_composer"
    /\ invoked = <<"casting_director", "image_generator", "audio_generator">>
    /\ ~state.cast_list.isNone
    /\ Len(state.audio_files) = 1
    /\ Len(state.script_json.scenes) = 2

\* C33: after the image stage the image-to-scene index map is empty or has one
\* entry per scene, every entry is -1 or an index into the image file list,
\* and in the none, upload and single modes the map is empty whenever the
\* image file list is.
C33_ImageMapShape ==
    Invoked("image_generator") =>
        LET m == state.image_scene_indices
        IN  /\ m = <<>> \/ Len(m) = Len(state.script_json.scenes)
            /\ \A k \in 1..Len(m) :
                  m[k] = -1 \/ (m[k] >= 0 /\ m[k] < Len(state.image_files))
            /\ (state.image_mode \in {"none", "upload", "single"} /\ state.image_files = <<>>)
                  => m = <<>>

C33_Witness ==
    /\ Invoked("image_generator")
    /\ state.image_mode = "per_scene"
    /\ Len(state.image_scene_indices) = 3
    /\ Len(state.image_files) = 1
    /\ state.image_scene_indices[1] = 0
    /\ state.image_scene_indices[3] = -1

\* C36: when a run has reached the terminal marker or was ended by an
\* exception, the stored status of its project is completed, published or
\* failed, never an in-progress one.
C36_FinalStatusTerminal ==
    (pc \in {"end", "aborted"} /\ db.project_exists) =>
        db.status \in {"completed", "published", "failed"}

\* C39: in regenerate-video every clip pairs its audio file with the speaker
\* and line of the scene the file is named after, also when the audio stage
\* had skipped scenes.
C39_RegeneratePairsByName ==
    (entry = "regenerate_video" /\ Invoked("video_composer")) =>
        \A k \in 1..Len(clips) :
            LET scene == SceneAt(state.script_json.scenes, SceneOfFile(clips[k].audio))
            IN  clips[k].speaker = scene.speaker /\ clips[k].line = scene.line

\* the script stage's document has a non-empty scene list and every scene has
\* a speaker, a line and a duration
WellFormed(doc) ==
    /\ doc.has_scenes
    /\ doc.scenes # <<>>
    /\ \A k \in 1..Len(doc.scenes) : SceneKeys \subseteq doc.scenes[k].keys

\* C34: script content is populated only from a generated document that
\* passed validation: a document that reaches the save has a non-empty scene
\* list whose scenes all have speaker, line and duration, the stored script is
\* that document, and a rejected document is never stored.
C34_OnlyValidatedStored ==
    /\ script_json.stage = "validated" => WellFormed(script_json.doc)
    /\ ~state.script_json.isNone =>
          /\ script_json.stage = "validated"
          /\ state.script_json.scenes = StoredScenes(script_json.doc)
    /\ script_json.stage \in {"rejected", "raised"} => state.script_json.isNone

C34_Witness ==
    /\ script_json.stage = "rejected"
    /\ script_json.generated.has_scenes
    /\ Len(script_json.generated.scenes) = 2
    /\ "speaker" \notin script_json.generated.scenes[2].keys
    /\ state.script_json.isNone
    /\ Last(state.errors).kind = "missing_fields"

\* C35: every scene of a document that passed the script stage's validation
\* has a duration between 0.5 and 60 seconds, 3.0 when the generator gave none.
C35_DurationInRange ==
    script_json.stage = "validated" =>
        \A k \in 1..Len(script_json.doc.scenes) :
            /\ script_json.doc.scenes[k].duration >= DurationMin
            /\ script_json.doc.scenes[k].duration <= DurationMax
            /\ "duration" \notin script_json.generated.scenes[k].keys
                  => script_json.doc.scenes[k].duration = DefaultDuration

====
